---- MODULE Spec2Model ----
(***************************************************************************)
(* Model of the geometry package: rectangles (rect.py), the translate      *)
(* mixin (translate.py), stretch/translate handles (handles.py), groups    *)
(* with their bounding box (group.py, mixins.py), copies with user data    *)
(* (userdata.py), segments (path.py) and the html canvas (canvas.py).      *)
(*                                                                         *)
(* Numbers.  The library computes with Python ints and floats; the only    *)
(* non-integer operation is a division by two, which is exact in binary    *)
(* floating point.  The model computes with integers and models "/ 2" by   *)
(* Half; every action that could leave the grid on which halving is exact  *)
(* (edges on even numbers) is guarded by OnGrid, and every action is       *)
(* guarded by InRange, the bound on the coordinates.                       *)
(***************************************************************************)
EXTENDS Integers, Sequences, FiniteSets, TLC

VARIABLES rect, last, heap, glast, pure, ncalls, ret

vars == <<rect, last, heap, glast, pure, ncalls, ret>>

(***************************************************************************)
(* Bounds                                                                  *)
(***************************************************************************)
\* coordinates given by callers are the even numbers in -2*MaxCoord..2*MaxCoord
MaxCoord == 2

Coords == {2 * k : k \in (0 - MaxCoord)..MaxCoord}

Lim == 2 * MaxCoord

Half(v) == v \div 2

(***************************************************************************)
(* point.py                                                                *)
(***************************************************************************)
Num(v) == [t |-> "num", v |-> v]

Point(px, py) == [t |-> "pt", x |-> px, y |-> py]

Points == {Point(px, py) : px \in Coords, py \in {-2, 0, 2}}

(***************************************************************************)
(* rect.py / translate.py : a shape is its four dataclass fields           *)
(***************************************************************************)
Rect(px, py, w, h) == [x |-> px, y |-> py, width |-> w, height |-> h]

from_edges(l, r, b, t) == Rect(Half(l + r), Half(b + t), r - l, t - b)

left(self) == self.x - Half(self.width)

right(self) == self.x + Half(self.width)

bottom(self) == self.y - Half(self.height)

top(self) == self.y + Half(self.height)

set_left(self, value) == [self EXCEPT !.x = self.x + (value - left(self))]

set_right(self, value) == [self EXCEPT !.x = self.x + (value - right(self))]

set_bottom(self, value) == [self EXCEPT !.y = self.y + (value - bottom(self))]

set_top(self, value) == [self EXCEPT !.y = self.y + (value - top(self))]

EdgeNames == {"left", "right", "bottom", "top"}

StretchCornerNames == {"bottom_left", "bottom_right", "top_left", "top_right"}

\* the class attributes of CanTranslate: name -> Corner(y, x)
Corner(name) ==
    CASE name = "top_left" -> [y |-> "top", x |-> "left"]
      [] name = "center_left" -> [y |-> "y", x |-> "left"]
      [] name = "bottom_left" -> [y |-> "bottom", x |-> "left"]
      [] name = "top_center" -> [y |-> "top", x |-> "x"]
      [] name = "center_center" -> [y |-> "y", x |-> "x"]
      [] name = "center" -> [y |-> "y", x |-> "x"]
      [] name = "bottom_center" -> [y |-> "bottom", x |-> "x"]
      [] name = "top_right" -> [y |-> "top", x |-> "right"]
      [] name = "center_right" -> [y |-> "y", x |-> "right"]
      [] name = "bottom_right" -> [y |-> "bottom", x |-> "right"]

CornerNames == {"top_left", "center_left", "bottom_left", "top_center", "center_center",
                "center", "bottom_center", "top_right", "center_right", "bottom_right"}

\* getattr(self, name) for a number-valued attribute
getnum(self, name) ==
    CASE name = "x" -> self.x
      [] name = "y" -> self.y
      [] name = "width" -> self.width
      [] name = "height" -> self.height
      [] name = "left" -> left(self)
      [] name = "right" -> right(self)
      [] name = "bottom" -> bottom(self)
      [] name = "top" -> top(self)

\* setattr(self, name, value) for a number-valued attribute
setnum(self, name, value) ==
    CASE name = "x" -> [self EXCEPT !.x = value]
      [] name = "y" -> [self EXCEPT !.y = value]
      [] name = "left" -> set_left(self, value)
      [] name = "right" -> set_right(self, value)
      [] name = "bottom" -> set_bottom(self, value)
      [] name = "top" -> set_top(self, value)

\* Corner.__get__; int_if_possible changes the type of a number, not its value
Corner_get(self, name) ==
    Point(getnum(self, Corner(name).x), getnum(self, Corner(name).y))

\* mutant: the coordinates of the point are swapped
Corner_set_mut(self, name, value) ==
    setnum(setnum(self, Corner(name).x, value.y), Corner(name).y, value.x)

\* Corner.__set__
Corner_set(self, name, value) ==
    setnum(setnum(self, Corner(name).x, value.x), Corner(name).y, value.y)

setattr(self, name, value) ==
    IF name \in CornerNames THEN Corner_set(self, name, value)
    ELSE setnum(self, name, value.v)

\* mutant: the center moves the wrong way
_stretch_left_mut(self, offset) ==
    [self EXCEPT !.width = self.width - offset, !.x = self.x - Half(offset)]

_stretch_left(self, offset) ==
    [self EXCEPT !.width = self.width - offset, !.x = self.x + Half(offset)]

_stretch_right(self, offset) ==
    [self EXCEPT !.width = self.width + offset, !.x = self.x + Half(offset)]

_stretch_bottom(self, offset) ==
    [self EXCEPT !.height = self.height - offset, !.y = self.y + Half(offset)]

_stretch_top(self, offset) ==
    [self EXCEPT !.height = self.height + offset, !.y = self.y + Half(offset)]

\* getattr(self, f'_stretch_{name}')(offset)
_stretch(self, name, offset) ==
    CASE name = "left" -> _stretch_left(self, offset)
      [] name = "right" -> _stretch_right(self, offset)
      [] name = "bottom" -> _stretch_bottom(self, offset)
      [] name = "top" -> _stretch_top(self, offset)

\* BaseRect.is_inside_of
is_inside_of(self, other) ==
    /\ left(self) >= left(other)
    /\ right(self) <= right(other)
    /\ bottom(self) >= bottom(other)
    /\ top(self) <= top(other)

(***************************************************************************)
(* handles.py                                                              *)
(***************************************************************************)
EdgeHandle(name, factor, offset) ==
    [t |-> "edge", name |-> name, factor |-> factor, offset |-> offset]

\* mutant: the factor of the edge is ignored
EdgeHandle_add_mut(self, offset) ==
    EdgeHandle(self.name, self.factor, self.offset + offset)

EdgeHandle_add(self, offset) ==
    EdgeHandle(self.name, self.factor, self.offset + self.factor * offset)

EdgeHandle_sub(self, offset) ==
    EdgeHandle(self.name, self.factor, self.offset - self.factor * offset)

\* mutant: the offset of the handle is dropped
EdgeHandle_position_mut(self, shape) == getnum(shape, self.name)

EdgeHandle_position(self, shape) == getnum(shape, self.name) + self.offset

_to_vector(arg) == IF arg.t = "pt" THEN arg ELSE Point(arg.v, arg.v)

PointHandle(hy, hx) == [t |-> "point", y |-> hy, x |-> hx]

PointHandle_add(self, offset) ==
    PointHandle(EdgeHandle_add(self.y, _to_vector(offset).y),
                EdgeHandle_add(self.x, _to_vector(offset).x))

PointHandle_sub(self, offset) ==
    PointHandle(EdgeHandle_sub(self.y, _to_vector(offset).y),
                EdgeHandle_sub(self.x, _to_vector(offset).x))

MultiHandle(name, edges) == [t |-> "multi", name |-> name, edges |-> edges]

MultiHandle_add(self, offset) ==
    MultiHandle(self.name,
                [i \in DOMAIN self.edges |-> EdgeHandle_add(self.edges[i], offset)])

MultiHandle_sub(self, offset) ==
    MultiHandle(self.name,
                [i \in DOMAIN self.edges |-> EdgeHandle_sub(self.edges[i], offset)])

\* __iter__ of the three handle classes
Handle_iter(self) ==
    CASE self.t = "edge" -> <<self>>
      [] self.t = "point" -> <<self.x, self.y>>
      [] self.t = "multi" -> self.edges

h_left == EdgeHandle("left", -1, 0)

h_right == EdgeHandle("right", 1, 0)

h_bottom == EdgeHandle("bottom", -1, 0)

h_top == EdgeHandle("top", 1, 0)

h_top_left == PointHandle(h_top, h_left)

h_top_right == PointHandle(h_top, h_right)

h_bottom_left == PointHandle(h_bottom, h_left)

h_bottom_right == PointHandle(h_bottom, h_right)

h_width == MultiHandle("width", <<h_left, h_right>>)

h_height == MultiHandle("height", <<h_top, h_bottom>>)

h_out == MultiHandle("out", <<h_left, h_right, h_top, h_bottom>>)

\* mutant: the top edge has the factor of an outward handle
h_in_mut == MultiHandle("in", <<EdgeHandle("left", 1, 0), EdgeHandle("right", -1, 0),
                                EdgeHandle("bottom", 1, 0), EdgeHandle("top", 1, 0)>>)

h_in_ == MultiHandle("in", <<EdgeHandle("left", 1, 0), EdgeHandle("right", -1, 0),
                             EdgeHandle("bottom", 1, 0), EdgeHandle("top", -1, 0)>>)

EdgeHandles == {h_left, h_right, h_bottom, h_top}

PointHandles == {h_top_left, h_top_right, h_bottom_left, h_bottom_right}

MultiHandles == {h_width, h_height, h_out, h_in_}

\* handle + offset and handle - offset, dispatched on the class of the handle
Handle_add(self, offset) ==
    CASE self.t = "edge" -> EdgeHandle_add(self, offset.v)
      [] self.t = "point" -> PointHandle_add(self, offset)
      [] self.t = "multi" -> MultiHandle_add(self, offset.v)

Handle_sub(self, offset) ==
    CASE self.t = "edge" -> EdgeHandle_sub(self, offset.v)
      [] self.t = "point" -> PointHandle_sub(self, offset)
      [] self.t = "multi" -> MultiHandle_sub(self, offset.v)

(***************************************************************************)
(* BaseRect.stretch and CanTranslate.translate                             *)
(***************************************************************************)
\* a keyword argument key=target
KW(key, target) == [key |-> key, target |-> target]

\* a handle expression of the caller: handle + d or handle - d
HExpr(h, sign, d) == [t |-> "hexpr", h |-> h, sign |-> sign, d |-> d]

HEval(e) == IF e.sign = "+" THEN Handle_add(e.h, e.d) ELSE Handle_sub(e.h, e.d)

\* the value of an argument expression of the caller
Eval(e) == IF e.t = "hexpr" THEN HEval(e) ELSE e

EvalAll(es) == [i \in DOMAIN es |-> Eval(es[i])]

EvalKWs(kws) == [i \in DOMAIN kws |-> KW(kws[i].key, Eval(kws[i].target))]

\* key.split('_')
split(key) ==
    CASE key = "bottom_left" -> <<"bottom", "left">>
      [] key = "bottom_right" -> <<"bottom", "right">>
      [] key = "top_left" -> <<"top", "left">>
      [] key = "top_right" -> <<"top", "right">>
      [] OTHER -> <<key>>

Min(a, b) == IF a <= b THEN a ELSE b

\* zip(keys, targets): pairs up to the shorter of the two
zip(keys, targets) ==
    [i \in 1..Min(Len(keys), Len(targets)) |-> <<keys[i], targets[i]>>]

\* for handle in handles: getattr(self, f'_stretch_{handle.name}')(handle.offset)
RECURSIVE stretch_handles(_, _)
stretch_handles(self, handles) ==
    IF handles = <<>> THEN self
    ELSE stretch_handles(_stretch(self, Head(handles).name, Head(handles).offset),
                         Tail(handles))

\* for handles in relative: ...
RECURSIVE stretch_relative(_, _)
stretch_relative(self, relative) ==
    IF relative = <<>> THEN self
    ELSE stretch_relative(stretch_handles(self, Handle_iter(Head(relative))),
                          Tail(relative))

\* for k, t in zip(keys, targets): offset = t - getattr(self, k); _stretch_k(offset)
RECURSIVE stretch_pairs(_, _)
stretch_pairs(self, pairs) ==
    IF pairs = <<>> THEN self
    ELSE stretch_pairs(_stretch(self, Head(pairs)[1],
                                Head(pairs)[2] - getnum(self, Head(pairs)[1])),
                       Tail(pairs))

\* one iteration of "for key, target in absolute.items()"
stretch_target(self, key, target) ==
    IF target.t = "pt"
    THEN stretch_pairs(self, zip(split(key), <<target.x, target.y>>))
    ELSE stretch_pairs(self, zip(<<key>>, <<target.v>>))

\* mutant: the keyword arguments are applied last to first
RECURSIVE stretch_absolute_mut(_, _)
stretch_absolute_mut(self, absolute) ==
    IF absolute = <<>> THEN self
    ELSE stretch_target(stretch_absolute_mut(self, Tail(absolute)),
                        Head(absolute).key, Head(absolute).target)

RECURSIVE stretch_absolute(_, _)
stretch_absolute(self, absolute) ==
    IF absolute = <<>> THEN self
    ELSE stretch_absolute(stretch_target(self, Head(absolute).key, Head(absolute).target),
                          Tail(absolute))

\* BaseRect.stretch: the state of self when the call returns (it returns self)
stretch(self, relative, absolute) ==
    stretch_absolute(stretch_relative(self, relative), absolute)

\* one iteration of the loop of CanTranslate.translate
translate_target(self, key, target) ==
    IF target.t = "edge"
    THEN setattr(self, key, Num(EdgeHandle_position(target, self)))
    ELSE setattr(self, key, target)

RECURSIVE translate(_, _)
translate(self, absolute) ==
    IF absolute = <<>> THEN self
    ELSE translate(translate_target(self, Head(absolute).key, Head(absolute).target),
                   Tail(absolute))

(***************************************************************************)
(* Guards that bound the model                                             *)
(***************************************************************************)
InRange(s) ==
    /\ left(s) \in (0 - Lim)..Lim
    /\ right(s) \in (0 - Lim)..Lim
    /\ bottom(s) \in (0 - Lim)..Lim
    /\ top(s) \in (0 - Lim)..Lim

\* halving is exact in every getter and every stretch of s
OnGrid(s) ==
    /\ s.width % 2 = 0
    /\ s.height % 2 = 0
    /\ left(s) % 2 = 0
    /\ bottom(s) % 2 = 0

Bounded(s) == InRange(s) /\ OnGrid(s)

(***************************************************************************)
(* Rectangle operations: one rectangle object, called by a client          *)
(***************************************************************************)
Nums == {Num(v) : v \in Coords}

\* offsets of relative handles: d and (dx, dy) and the scalar shortcut
Offsets == {Num(v) : v \in {-2, 2, 4}}

Vectors == {Point(dx, dy) : dx \in {0, 2}, dy \in {-2, 2, 4}}

Signs == {"+", "-"}

NoRect == Rect(0, 0, 0, 0)

Call(op, pre, relative, absolute) ==
    [op |-> op, pre |-> pre, rel |-> relative, abs |-> absolute, ret |-> "self"]

\* no call is in progress or under observation
Idle == [op |-> "idle", pre |-> NoRect, rel |-> <<>>, abs |-> <<>>, ret |-> "none"]

InitRects == {from_edges(l, r, b, t) : l \in Coords, r \in Coords, b \in Coords, t \in Coords}

InitRect ==
    /\ rect \in {r \in InitRects : r.width >= 0 /\ r.height >= 0}
    /\ last = Idle
    /\ heap = <<>>
    /\ glast = <<>>
    /\ pure = <<>>
    /\ ncalls = 0
    /\ ret = <<>>

\* the client's call of a method of rect: the method body runs to its return
Invoke(op, new, relative, absolute) ==
    /\ last.op = "idle"
    /\ Bounded(new)
    /\ rect' = new
    /\ last' = Call(op, rect, relative, absolute)
    /\ UNCHANGED <<heap, glast, pure, ncalls, ret>>

\* r.stretch(edge=t)
StretchEdge ==
    \E key \in EdgeNames, target \in Nums :
        LET absolute == <<KW(key, target)>>
        IN  Invoke("stretch", stretch(rect, <<>>, EvalKWs(absolute)), <<>>, absolute)

\* r.stretch(corner=Point(px, py))
StretchCorner ==
    \E key \in StretchCornerNames, target \in Points :
        LET absolute == <<KW(key, target)>>
        IN  Invoke("stretch", stretch(rect, <<>>, EvalKWs(absolute)), <<>>, absolute)

SomeNums == {Num(v) : v \in {-2, 2}}

SomePoints == {Point(-2, 0), Point(2, 4)}

\* r.stretch(k1=t1, k2=t2)
StretchSeveral ==
    \E k1 \in EdgeNames \cup StretchCornerNames, k2 \in EdgeNames :
      \E t1 \in (IF k1 \in EdgeNames THEN SomeNums ELSE SomePoints), t2 \in SomeNums :
        LET absolute == <<KW(k1, t1), KW(k2, t2)>>
        IN  /\ k1 # k2
            /\ Invoke("stretch", stretch(rect, <<>>, EvalKWs(absolute)), <<>>, absolute)

\* r.stretch(handle + d), r.stretch(handle - d)
StretchRelative ==
    \E h \in EdgeHandles \cup PointHandles \cup MultiHandles, sign \in Signs :
      \E d \in (IF h.t = "point" THEN Offsets \cup Vectors ELSE Offsets) :
        LET relative == <<HExpr(h, sign, d)>>
        IN  Invoke("stretch", stretch(rect, EvalAll(relative), <<>>), relative, <<>>)

\* r.left = v, r.top_left = Point(px, py), ...
Assign ==
    \E key \in EdgeNames \cup CornerNames :
      \E value \in (IF key \in EdgeNames THEN Nums ELSE Points) :
        Invoke("setattr", setattr(rect, key, value), <<>>, <<KW(key, value)>>)

TranslateHandles == {HExpr(h, sign, d) : h \in EdgeHandles, sign \in Signs, d \in Offsets}

SomeHandles == {HExpr(h, "+", Num(2)) : h \in EdgeHandles}

\* r.translate(key=target)
Translate ==
    \E key \in EdgeNames \cup CornerNames :
      \E target \in (IF key \in EdgeNames THEN Nums \cup TranslateHandles ELSE SomePoints) :
        LET absolute == <<KW(key, target)>>
        IN  Invoke("translate", translate(rect, EvalKWs(absolute)), <<>>, absolute)

\* r.translate(k1=t1, k2=t2)
TranslateSeveral ==
    \E k1 \in EdgeNames \cup {"center"}, k2 \in EdgeNames :
      \E t1 \in (IF k1 \in EdgeNames THEN SomeHandles ELSE SomePoints), t2 \in SomeHandles :
        LET absolute == <<KW(k1, t1), KW(k2, t2)>>
        IN  /\ k1 # k2
            /\ Invoke("translate", translate(rect, EvalKWs(absolute)), <<>>, absolute)

\* the client is done with the result of the call and may make the next call
Return ==
    /\ last.op # "idle"
    /\ last' = Idle
    /\ UNCHANGED <<rect, heap, glast, pure, ncalls, ret>>

NextRect ==
    \/ StretchEdge
    \/ StretchCorner
    \/ StretchSeveral
    \/ StretchRelative
    \/ Assign
    \/ Translate
    \/ TranslateSeveral
    \/ Return

SpecRect == InitRect /\ [][NextRect]_vars

(***************************************************************************)
(* Properties of the rectangle operations                                  *)
(***************************************************************************)
\* the last call was r.stretch(key=target) with one keyword and no handle
OneAbsolute(op) == last.op = op /\ last.rel = <<>> /\ Len(last.abs) = 1

\* the last call was r.stretch(handle +/- d)
OneRelative == last.op = "stretch" /\ last.abs = <<>> /\ Len(last.rel) = 1

SameEdges(a, b, names) == \A n \in names : getnum(a, n) = getnum(b, n)

OppositeCorner(name) ==
    CASE name = "bottom_left" -> "top_right"
      [] name = "bottom_right" -> "top_left"
      [] name = "top_left" -> "bottom_right"
      [] name = "top_right" -> "bottom_left"

OppositeEdge(name) ==
    CASE name = "left" -> "right"
      [] name = "right" -> "left"
      [] name = "bottom" -> "top"
      [] name = "top" -> "bottom"

\* how far edge name of b lies further from the center than the same edge of a
Outward(a, b, name) ==
    IF name \in {"left", "bottom"}
    THEN getnum(a, name) - getnum(b, name)
    ELSE getnum(b, name) - getnum(a, name)

Signed(sign, v) == IF sign = "+" THEN v ELSE 0 - v

\* C2: after r.stretch(c=P) with c one of the four corners, corner c of r is at
\* P = (px, py) and the diagonally opposite corner is where it was before.
C2_CornerStretchedToPoint ==
    (OneAbsolute("stretch") /\ last.abs[1].key \in StretchCornerNames) =>
        /\ Corner_get(rect, last.abs[1].key) = last.abs[1].target
        /\ Corner_get(rect, OppositeCorner(last.abs[1].key))
               = Corner_get(last.pre, OppositeCorner(last.abs[1].key))

\* the target t does not cross the edge opposite to edge name of rectangle a
NotCrossing(a, name, t) ==
    IF name \in {"left", "bottom"}
    THEN t <= getnum(a, OppositeEdge(name))
    ELSE t >= getnum(a, OppositeEdge(name))

\* C3: after r.stretch(e=t) with e an edge and t not crossing the opposite edge,
\* edge e equals t and the other three edges are unchanged.
C3_EdgeStretchedToTarget ==
    (/\ OneAbsolute("stretch")
     /\ last.abs[1].key \in EdgeNames
     /\ NotCrossing(last.pre, last.abs[1].key, last.abs[1].target.v)) =>
        /\ getnum(rect, last.abs[1].key) = last.abs[1].target.v
        /\ SameEdges(rect, last.pre, EdgeNames \ {last.abs[1].key})

C3_Witness ==
    /\ OneAbsolute("stretch")
    /\ last.abs[1] = KW("left", Num(-2))
    /\ left(last.pre) = 2
    /\ right(last.pre) = 4
    /\ left(rect) = -2

\* C4: r.stretch(h + d) moves edge h by d away from the center and
\* r.stretch(h - d) by d towards it (width or height grows resp. shrinks by d),
\* the other three edges unchanged; a corner handle plus (dx, dy) moves the
\* corner's x-edge outward by dx and its y-edge outward by dy, and a scalar s
\* counts as the vector (s, s).
C4_RelativeStretch ==
    OneRelative =>
        LET e == last.rel[1]
            vec == IF e.d.t = "pt" THEN e.d ELSE Point(e.d.v, e.d.v)
        IN  /\ e.h \in EdgeHandles =>
                /\ Outward(last.pre, rect, e.h.name) = Signed(e.sign, e.d.v)
                /\ SameEdges(rect, last.pre, EdgeNames \ {e.h.name})
                /\ e.h.name \in {"left", "right"} =>
                       rect.width = last.pre.width + Signed(e.sign, e.d.v)
                /\ e.h.name \in {"bottom", "top"} =>
                       rect.height = last.pre.height + Signed(e.sign, e.d.v)
            /\ (e.h \in PointHandles /\ e.sign = "+") =>
                /\ Outward(last.pre, rect, e.h.x.name) = vec.x
                /\ Outward(last.pre, rect, e.h.y.name) = vec.y
                /\ SameEdges(rect, last.pre, EdgeNames \ {e.h.x.name, e.h.y.name})

C4_Witness ==
    /\ OneRelative
    /\ last.rel[1] = HExpr(h_bottom_left, "+", Point(2, 4))
    /\ left(rect) = left(last.pre) - 2
    /\ bottom(rect) = bottom(last.pre) - 4

\* C5: out + d moves all four edges outwards by d (width and height grow by
\* 2d, center unchanged), in_ + d moves all four inwards by d, width + d and
\* height + d move only the two horizontal resp. vertical edges, and
\* stretch(in_ + d) gives the same rectangle as stretch(out - d).
C5_MultiHandles ==
    (OneRelative /\ last.rel[1].h \in MultiHandles) =>
        LET e == last.rel[1]
            d == Signed(e.sign, e.d.v)
        IN  /\ e.h = h_out =>
                /\ \A n \in EdgeNames : Outward(last.pre, rect, n) = d
                /\ rect.width = last.pre.width + 2 * d
                /\ rect.height = last.pre.height + 2 * d
                /\ rect.x = last.pre.x /\ rect.y = last.pre.y
            /\ e.h = h_in_ =>
                /\ \A n \in EdgeNames : Outward(last.pre, rect, n) = 0 - d
                /\ rect = stretch(last.pre, <<HEval(HExpr(h_out, "-", Num(d)))>>, <<>>)
            /\ e.h = h_width =>
                /\ \A n \in {"left", "right"} : Outward(last.pre, rect, n) = d
                /\ SameEdges(rect, last.pre, {"bottom", "top"})
            /\ e.h = h_height =>
                /\ \A n \in {"bottom", "top"} : Outward(last.pre, rect, n) = d
                /\ SameEdges(rect, last.pre, {"left", "right"})

C5_Witness ==
    /\ OneRelative
    /\ last.rel[1] = HExpr(h_in_, "+", Num(2))
    /\ last.pre.width = 6 /\ last.pre.height = 4
    /\ rect.width = 2 /\ rect.height = 0

\* C6: r.stretch(k1=a, k2=b) leaves r as r.stretch(k1=a).stretch(k2=b) does,
\* and stretch returns the rectangle it was called on.
C6_SeveralTargetsInOrder ==
    (last.op = "stretch" /\ last.rel = <<>> /\ Len(last.abs) = 2) =>
        /\ rect = stretch(stretch(last.pre, <<>>, EvalKWs(<<last.abs[1]>>)),
                          <<>>, EvalKWs(<<last.abs[2]>>))
        /\ last.ret = "self"

C6_Witness ==
    /\ last.op = "stretch" /\ last.rel = <<>> /\ Len(last.abs) = 2
    /\ last.abs[1].key = "bottom_left"
    /\ last.abs[2].key = "left"
    /\ last.abs[1].target.y # last.abs[2].target.v
    /\ rect # stretch(last.pre, <<>>, EvalKWs(<<last.abs[1]>>))

\* C7: after r.name = value, or r.translate(name=value), with name an edge or
\* one of the corner/center points, the named edge or point equals the value,
\* width and height are unchanged, assigning left or right leaves y unchanged
\* and assigning bottom or top leaves x unchanged.
C7_AssignTranslates ==
    ((OneAbsolute("setattr") \/ OneAbsolute("translate"))
        /\ last.abs[1].target.t \in {"num", "pt"}) =>
        LET key == last.abs[1].key
            value == last.abs[1].target
        IN  /\ key \in EdgeNames => getnum(rect, key) = value.v
            /\ key \in CornerNames => Corner_get(rect, key) = value
            /\ rect.width = last.pre.width
            /\ rect.height = last.pre.height
            /\ key \in {"left", "right"} => rect.y = last.pre.y
            /\ key \in {"bottom", "top"} => rect.x = last.pre.x

C7_Witness ==
    /\ OneAbsolute("setattr")
    /\ last.abs[1] = KW("center_right", Point(4, -2))
    /\ rect.x # last.pre.x
    /\ rect.y # last.pre.y
    /\ last.pre.width > 0

\* C8: r.translate(left=right + d) moves r to the right by width + d (the new
\* left edge is the old right edge plus d) and keeps its size; several keyword
\* targets are applied one after the other, each handle resolved against the
\* position reached so far.
C8_TranslateToHandle ==
    /\ (OneAbsolute("translate") /\ last.abs[1].key = "left"
            /\ last.abs[1].target.t = "hexpr"
            /\ last.abs[1].target.h = h_right /\ last.abs[1].target.sign = "+") =>
        /\ left(rect) = right(last.pre) + last.abs[1].target.d.v
        /\ rect.x = last.pre.x + last.pre.width + last.abs[1].target.d.v
        /\ rect.y = last.pre.y
        /\ rect.width = last.pre.width /\ rect.height = last.pre.height
    /\ (last.op = "translate" /\ Len(last.abs) = 2) =>
        LET mid == translate(last.pre, EvalKWs(<<last.abs[1]>>))
            h2 == Eval(last.abs[2].target)
        IN  /\ getnum(rect, last.abs[2].key) = getnum(mid, h2.name) + h2.offset
            /\ rect = translate(mid, EvalKWs(<<last.abs[2]>>))
            /\ rect.width = last.pre.width /\ rect.height = last.pre.height

C8_Witness ==
    /\ OneAbsolute("translate")
    /\ last.abs[1] = KW("left", HExpr(h_right, "+", Num(2)))
    /\ last.pre.width = 2
    /\ rect.x = last.pre.x + 4

(***************************************************************************)
(* group.py / mixins.py : groups of shapes on a heap of objects            *)
(*                                                                         *)
(* heap maps an object reference to the object: a rectangle is its four    *)
(* fields, a group is its list of shape references and its bbox, which is  *)
(* <<>> for None and <<b>> for the Rect b.  A method that raises leaves    *)
(* the heap as it is at the raise and sets err.                            *)
(***************************************************************************)
RectIds == {"r1", "r2"}

GroupIds == {"g1", "g2"}

\* a group object; made is FALSE until the constructor has returned it
GroupObj(shapes, bbox) == [made |-> TRUE, shapes |-> shapes, bbox |-> bbox]

NoGroup == [made |-> FALSE, shapes |-> <<>>, bbox |-> <<>>]

Res(h, err) == [heap |-> h, err |-> err]

\* shape.x, shape.y, shape.width, shape.height can be read without an assertion
HasDims(h, shape) == shape \in RectIds \/ h[shape].bbox # <<>>

\* the x, y, width, height of a shape: its fields, or those of the bbox of a group
Dims(h, shape) == IF shape \in RectIds THEN h[shape] ELSE h[shape].bbox[1]

\* one of the four "if shape.<edge> beyond self.bbox.<edge>:
\* self.bbox.stretch(<edge>=shape.<edge>)" of _update_bbox
bbox_stretch(bbox, d, edge) ==
    IF \/ edge \in {"left", "bottom"} /\ getnum(d, edge) < getnum(bbox, edge)
       \/ edge \in {"right", "top"} /\ getnum(d, edge) > getnum(bbox, edge)
    THEN stretch(bbox, <<>>, <<KW(edge, Num(getnum(d, edge)))>>)
    ELSE bbox

\* the bbox of g before the four ifs of _update_bbox for a shape of dimensions d
bbox_start(h, g, d) ==
    IF h[g].bbox = <<>> THEN Rect(d.x, d.y, d.width, d.height) ELSE h[g].bbox[1]

\* mutant: a shape above the bbox does not stretch it
_update_bbox_mut(h, g, shape) ==
    IF ~HasDims(h, shape) THEN Res(h, TRUE)
    ELSE IF h[g].bbox = <<>> /\ (Dims(h, shape).width < 0 \/ Dims(h, shape).height < 0)
         THEN Res(h, TRUE)
         ELSE Res([h EXCEPT ![g].bbox =
                      <<bbox_stretch(
                          bbox_stretch(
                            bbox_stretch(bbox_start(h, g, Dims(h, shape)),
                                         Dims(h, shape), "left"),
                            Dims(h, shape), "right"),
                          Dims(h, shape), "bottom")>>],
                  FALSE)

\* BaseGroup._update_bbox: reading the dimensions of a group without bbox
\* raises, Rect(...) raises on a negative width or height
_update_bbox(h, g, shape) ==
    IF ~HasDims(h, shape) THEN Res(h, TRUE)
    ELSE IF h[g].bbox = <<>> /\ (Dims(h, shape).width < 0 \/ Dims(h, shape).height < 0)
         THEN Res(h, TRUE)
         ELSE Res([h EXCEPT ![g].bbox =
                      <<bbox_stretch(
                          bbox_stretch(
                            bbox_stretch(
                              bbox_stretch(bbox_start(h, g, Dims(h, shape)),
                                           Dims(h, shape), "left"),
                              Dims(h, shape), "right"),
                            Dims(h, shape), "bottom"),
                          Dims(h, shape), "top")>>],
                  FALSE)

\* the loop "for shape in self.shapes: self._update_bbox(shape)" from index i on
RECURSIVE update_from(_, _, _)
update_from(h, g, i) ==
    IF i > Len(h[g].shapes) THEN Res(h, FALSE)
    ELSE LET r == _update_bbox(h, g, h[g].shapes[i])
         IN  IF r.err THEN r ELSE update_from(r.heap, g, i + 1)

\* mutant: the first shape is skipped
update_mut(h, g) == update_from(h, g, 2)

\* BaseGroup.update
update(h, g) == update_from(h, g, 1)

\* Group(shapes): the dataclass __init__ followed by __post_init__; when
\* __post_init__ raises no object is returned
Group(h, g, shapes) ==
    LET r == update([h EXCEPT ![g] = GroupObj(shapes, <<>>)], g)
    IN  IF r.err THEN Res(h, TRUE) ELSE r

\* BaseGroup.append
append(h, g, shape) ==
    _update_bbox([h EXCEPT ![g].shapes = Append(@, shape)], g, shape)

\* AppendMany.extend
RECURSIVE extend(_, _, _)
extend(h, g, items) ==
    IF items = <<>> THEN Res(h, FALSE)
    ELSE LET r == append(h, g, Head(items))
         IN  IF r.err THEN r ELSE extend(r.heap, g, Tail(items))

\* AppendMany.extend_star
extend_star(h, g, items) == extend(h, g, items)

RECURSIVE set_x(_, _, _)
RECURSIVE shift_x(_, _, _)
\* the loop "for shape in self.shapes: shape.x += offset" of the x setter
shift_x(h, shapes, offset) ==
    IF shapes = <<>> THEN Res(h, FALSE)
    ELSE LET shape == Head(shapes)
             r == IF shape \in RectIds
                  THEN Res([h EXCEPT ![shape].x = @ + offset], FALSE)
                  ELSE IF h[shape].bbox = <<>> THEN Res(h, TRUE)
                       ELSE set_x(h, shape, h[shape].bbox[1].x + offset)
         IN  IF r.err THEN r ELSE shift_x(r.heap, Tail(shapes), offset)

\* mutant: the bbox is not moved with the shapes
set_x_mut(h, g, value) ==
    IF h[g].bbox = <<>> THEN Res(h, TRUE)
    ELSE shift_x(h, h[g].shapes, value - h[g].bbox[1].x)

\* BaseGroup.x setter
set_x(h, g, value) ==
    IF h[g].bbox = <<>> THEN Res(h, TRUE)
    ELSE LET r == shift_x(h, h[g].shapes, value - h[g].bbox[1].x)
         IN  IF r.err THEN r
             ELSE Res([r.heap EXCEPT ![g].bbox[1].x = value], FALSE)

RECURSIVE set_y(_, _, _)
RECURSIVE shift_y(_, _, _)
\* the loop "for shape in self.shapes: shape.y += offset" of the y setter
shift_y(h, shapes, offset) ==
    IF shapes = <<>> THEN Res(h, FALSE)
    ELSE LET shape == Head(shapes)
             r == IF shape \in RectIds
                  THEN Res([h EXCEPT ![shape].y = @ + offset], FALSE)
                  ELSE IF h[shape].bbox = <<>> THEN Res(h, TRUE)
                       ELSE set_y(h, shape, h[shape].bbox[1].y + offset)
         IN  IF r.err THEN r ELSE shift_y(r.heap, Tail(shapes), offset)

\* BaseGroup.y setter
set_y(h, g, value) ==
    IF h[g].bbox = <<>> THEN Res(h, TRUE)
    ELSE LET r == shift_y(h, h[g].shapes, value - h[g].bbox[1].y)
         IN  IF r.err THEN r
             ELSE Res([r.heap EXCEPT ![g].bbox[1].y = value], FALSE)

(***************************************************************************)
(* Group operations called by a client                                     *)
(***************************************************************************)
\* the longest list of shapes of a group
MaxShapes == 2

\* the number of calls the client makes
MaxCalls == 3

\* the shapes of g and of the groups nested in g, at any depth
RECURSIVE Members(_, _)
Members(h, g) ==
    LET direct == {h[g].shapes[i] : i \in DOMAIN h[g].shapes}
    IN  direct \cup UNION {Members(h, s) : s \in direct \cap GroupIds}

\* the references a client puts into group g: g1 is the outer group
ShapesFor(h, g) ==
    IF g = "g1" THEN RectIds \cup {s \in {"g2"} : h[s].made} ELSE RectIds

ShapeLists(h, g, lo) ==
    UNION {[1..n -> ShapesFor(h, g)] : n \in lo..MaxShapes}

GInitRects == {from_edges(0, 2, 0, 2), from_edges(-2, 2, 0, 4), from_edges(2, 4, -2, 0)}

\* the rectangles the client starts with
GInitPairs == {<<a, b>> \in GInitRects \X GInitRects : left(a) > left(b)}

CenterValues == {1, 2}

GCall(op, g, value, pre, err) ==
    [op |-> op, g |-> g, value |-> value, pre |-> pre, err |-> err]

GIdle == [op |-> "idle", g |-> "none", value |-> 0, pre |-> <<>>, err |-> FALSE]

InitGroup ==
    /\ rect = NoRect
    /\ last = Idle
    /\ \E p \in GInitPairs :
           heap = [id \in RectIds \cup GroupIds |->
                      IF id = "r1" THEN p[1] ELSE IF id = "r2" THEN p[2] ELSE NoGroup]
    /\ glast = GIdle
    /\ pure = [g \in GroupIds |-> FALSE]
    /\ ncalls = 0
    /\ ret = <<>>

BoundedHeap(h) ==
    /\ \A r \in RectIds : OnGrid(h[r])
    /\ \A g \in GroupIds :
           /\ Len(h[g].shapes) <= MaxShapes
           /\ h[g].bbox # <<>> => OnGrid(h[g].bbox[1])

\* pure[g]: g was constructed from a list of shapes and since then only
\* append, extend and extend_star were called on it, none of them raised, and
\* no shape in it was changed
NextPure(h2, target, appending, err) ==
    [g \in GroupIds |->
        /\ pure[g]
        /\ \A s \in Members(heap, g) : h2[s] = heap[s]
        /\ g = target => (appending /\ ~err)]

\* a method call on the heap: res is the heap and error flag at its end
GInvoke(op, target, value, res, appending) ==
    /\ BoundedHeap(res.heap)
    /\ heap' = res.heap
    /\ glast' = GCall(op, target, value, heap, res.err)
    /\ pure' = NextPure(res.heap, target, appending, res.err)
    /\ ncalls' = ncalls + 1
    /\ UNCHANGED <<rect, last, ret>>

\* g = Group(shapes)
Construct ==
    /\ ncalls < MaxCalls
    /\ \E g \in {id \in GroupIds : ~heap[id].made} :
         \E shapes \in ShapeLists(heap, g, 0) :
           LET res == Group(heap, g, shapes)
           IN  /\ BoundedHeap(res.heap)
               /\ heap' = res.heap
               /\ glast' = GCall("Group", g, 0, heap, res.err)
               /\ pure' = [pure EXCEPT ![g] = ~res.err]
               /\ ncalls' = ncalls + 1
               /\ UNCHANGED <<rect, last, ret>>

\* the groups the client holds that have room for n more shapes
Made(n) == {id \in GroupIds : heap[id].made /\ Len(heap[id].shapes) + n <= MaxShapes}

\* g.append(shape)
Append1 ==
    /\ ncalls < MaxCalls
    /\ \E g \in Made(1) :
         \E shape \in ShapesFor(heap, g) :
           GInvoke("append", g, 0, append(heap, g, shape), TRUE)

\* g.extend(items)
Extend ==
    /\ ncalls < MaxCalls
    /\ \E g \in Made(1) :
         \E items \in ShapeLists(heap, g, 1) :
           GInvoke("extend", g, 0, extend(heap, g, items), TRUE)

\* g.extend_star(*items)
ExtendStar ==
    /\ ncalls < MaxCalls
    /\ \E g \in Made(1) :
         \E items \in ShapeLists(heap, g, 2) :
           GInvoke("extend_star", g, 0, extend_star(heap, g, items), TRUE)

\* g.x = value
SetX ==
    /\ ncalls < MaxCalls
    /\ \E g \in Made(0), value \in CenterValues :
         GInvoke("set_x", g, value, set_x(heap, g, value), FALSE)

\* g.y = value
SetY ==
    /\ ncalls < MaxCalls
    /\ \E g \in Made(0), value \in {1} :
         GInvoke("set_y", g, value, set_y(heap, g, value), FALSE)

\* g.update()
Update ==
    /\ ncalls < MaxCalls
    /\ \E g \in Made(0) :
         GInvoke("update", g, 0, update(heap, g), FALSE)

\* what the client does to a rectangle: r.key = value or r.stretch(key=value)
Changes == {<<"set", "left", 2>>, <<"stretch", "right", -2>>, <<"stretch", "top", 4>>}

\* the client changes a rectangle, whether or not it is in a group
ChangeRect ==
    /\ ncalls < MaxCalls
    /\ \E r \in RectIds, c \in Changes :
         LET new == IF c[1] = "set" THEN setattr(heap[r], c[2], Num(c[3]))
                    ELSE stretch(heap[r], <<>>, <<KW(c[2], Num(c[3]))>>)
         IN  /\ new # heap[r]
             /\ GInvoke(c[1], r, c[3], Res([heap EXCEPT ![r] = new], FALSE), FALSE)

NextGroup ==
    \/ Construct
    \/ Append1
    \/ Extend
    \/ ExtendStar
    \/ SetX
    \/ SetY
    \/ Update
    \/ ChangeRect

SpecGroup == InitGroup /\ [][NextGroup]_vars

(***************************************************************************)
(* Properties of groups                                                    *)
(***************************************************************************)
Direct(h, g) == {h[g].shapes[i] : i \in DOMAIN h[g].shapes}

MinOf(S) == CHOOSE m \in S : \A e \in S : m <= e

MaxOf(S) == CHOOSE m \in S : \A e \in S : m >= e

\* C1: for a group constructed from a list of shapes and then only grown by
\* append / extend / extend_star, with no contained shape changed in between,
\* the bbox is the smallest rectangle enclosing the shapes: its left is the
\* minimum of their left edges, its right the maximum of their right edges,
\* its bottom the minimum of their bottoms, its top the maximum of their tops;
\* with no shapes the bbox is None.
C1_BBoxEnclosesExactly ==
    \A g \in GroupIds :
        (heap[g].made /\ pure[g]) =>
            IF heap[g].shapes = <<>> THEN heap[g].bbox = <<>>
            ELSE /\ heap[g].bbox # <<>>
                 /\ \A s \in Direct(heap, g) : HasDims(heap, s)
                 /\ left(heap[g].bbox[1])
                        = MinOf({left(Dims(heap, s)) : s \in Direct(heap, g)})
                 /\ right(heap[g].bbox[1])
                        = MaxOf({right(Dims(heap, s)) : s \in Direct(heap, g)})
                 /\ bottom(heap[g].bbox[1])
                        = MinOf({bottom(Dims(heap, s)) : s \in Direct(heap, g)})
                 /\ top(heap[g].bbox[1])
                        = MaxOf({top(Dims(heap, s)) : s \in Direct(heap, g)})

C1_Witness ==
    /\ glast.op \in {"append", "extend", "extend_star"}
    /\ glast.g = "g1"
    /\ pure["g1"]
    /\ heap["g1"].shapes = <<"r1", "g2">>
    /\ Dims(heap, "r1") # heap["g1"].bbox[1]
    /\ Dims(heap, "g2") # heap["g1"].bbox[1]
    /\ top(Dims(heap, "g2")) > top(Dims(heap, "r1"))

\* the references met when the shapes of g are walked depth first
RECURSIVE Flat(_, _)
RECURSIVE FlatList(_, _)
FlatList(h, shapes) ==
    IF shapes = <<>> THEN <<>>
    ELSE <<Head(shapes)>>
         \o (IF Head(shapes) \in GroupIds THEN Flat(h, Head(shapes)) ELSE <<>>)
         \o FlatList(h, Tail(shapes))

Flat(h, g) == FlatList(h, h[g].shapes)

\* the shapes contained in g, at any depth, are distinct objects
Distinct(h, g) ==
    \A i, j \in DOMAIN Flat(h, g) : Flat(h, g)[i] = Flat(h, g)[j] => i = j

ShapeInside(h, s, g) == is_inside_of(Dims(h, s), h[g].bbox[1])

\* C9: after g.x = v (g.y = v) on a group with a bbox whose contained shapes
\* are distinct objects, every contained shape, at any depth of nesting, is
\* shifted horizontally (vertically) by v minus the old g.x (g.y), the center
\* of the bbox is at v, the size of the bbox is unchanged, and every shape
\* that was inside the bbox is still inside it.
C9_SetCenterMovesEveryShape ==
    (glast.op \in {"set_x", "set_y"} /\ ~glast.err /\ Distinct(glast.pre, glast.g)) =>
        LET g == glast.g
            pre == glast.pre
            old == pre[g].bbox[1]
            dx == IF glast.op = "set_x" THEN glast.value - old.x ELSE 0
            dy == IF glast.op = "set_y" THEN glast.value - old.y ELSE 0
            Moved(d) == [d EXCEPT !.x = @ + dx, !.y = @ + dy]
        IN  /\ \A s \in Members(pre, g) :
                /\ HasDims(heap, s)
                /\ Dims(heap, s) = Moved(Dims(pre, s))
                /\ ShapeInside(pre, s, g) => ShapeInside(heap, s, g)
            /\ glast.op = "set_x" => heap[g].bbox[1].x = glast.value
            /\ glast.op = "set_y" => heap[g].bbox[1].y = glast.value
            /\ heap[g].bbox[1] = Moved(old)

C9_Witness ==
    /\ glast.op = "set_x" /\ ~glast.err /\ glast.g = "g1"
    /\ Distinct(glast.pre, "g1")
    /\ glast.pre["g1"].shapes = <<"r1", "g2">>
    /\ glast.pre["g2"].shapes = <<"r2">>
    /\ heap["r2"].x # glast.pre["r2"].x
    /\ heap["r1"].x # glast.pre["r1"].x

\* C10: after g.update() every contained shape lies inside g.bbox, also when
\* shapes were changed after they were added to the group.
C10_UpdateRepairsContainment ==
    (glast.op = "update" /\ ~glast.err) =>
        \A s \in Direct(heap, glast.g) :
            /\ heap[glast.g].bbox # <<>>
            /\ HasDims(heap, s)
            /\ ShapeInside(heap, s, glast.g)

C10_Witness ==
    /\ glast.op = "update" /\ ~glast.err
    /\ glast.pre[glast.g].bbox # <<>>
    /\ \E s \in Direct(heap, glast.g) : ~ShapeInside(glast.pre, s, glast.g)
    /\ \A s \in Direct(heap, glast.g) : ShapeInside(heap, s, glast.g)

\* C11: after g.update() the bbox of g equals the bbox of a newly constructed
\* Group of the same shapes, whatever the bbox was before the call and however
\* the shapes were changed since they were added.
C11_UpdateRecalculates ==
    (glast.op = "update" /\ ~glast.err) =>
        LET g == glast.g
            fresh == Group(heap, g, heap[g].shapes)
        IN  ~fresh.err => heap[g].bbox = fresh.heap[g].bbox

(***************************************************************************)
(* rect.py : intersection and union of two rectangles                      *)
(*                                                                         *)
(* heap maps the client's names a and b to two rectangle objects, ret is   *)
(* the value a call returned: <<>> for None, <<r>> for the Rect r.         *)
(***************************************************************************)
\* the value and error flag at the end of a call that returns a value
Val(v, err) == [val |-> v, err |-> err]

max(a, b) == IF a >= b THEN a ELSE b

min(a, b) == IF a <= b THEN a ELSE b

\* BaseRect.__post_init__: TRUE when neither assertion fails
BaseRect__post_init__(self) == self.width >= 0 /\ self.height >= 0

\* mutant: rectangles that only touch are taken to intersect
intersection_mut(self, other) ==
    IF \/ max(left(self), left(other)) > min(right(self), right(other))
       \/ max(bottom(self), bottom(other)) > min(top(self), top(other))
    THEN Val(<<>>, FALSE)
    ELSE Val(<<from_edges(max(left(self), left(other)), min(right(self), right(other)),
                          max(bottom(self), bottom(other)), min(top(self), top(other)))>>,
             FALSE)

\* BaseRect.intersection
intersection(self, other) ==
    IF \/ max(left(self), left(other)) >= min(right(self), right(other))
       \/ max(bottom(self), bottom(other)) >= min(top(self), top(other))
    THEN Val(<<>>, FALSE)
    ELSE Val(<<from_edges(max(left(self), left(other)), min(right(self), right(other)),
                          max(bottom(self), bottom(other)), min(top(self), top(other)))>>,
             FALSE)

\* the rectangle union builds, before Rect's __post_init__ has checked it
union_edges(self, other) ==
    from_edges(min(left(self), left(other)), max(right(self), right(other)),
               min(bottom(self), bottom(other)), max(top(self), top(other)))

\* mutant: the top of the result is the lower of the two tops
union_mut(self, other) ==
    Val(<<from_edges(min(left(self), left(other)), max(right(self), right(other)),
                     min(bottom(self), bottom(other)), min(top(self), top(other)))>>,
        FALSE)

\* BaseRect.union: Rect.from_edges raises when the width or height is negative
union(self, other) ==
    IF BaseRect__post_init__(union_edges(self, other))
    THEN Val(<<union_edges(self, other)>>, FALSE)
    ELSE Val(<<>>, TRUE)

(***************************************************************************)
(* A client with two rectangles calls intersection or union once           *)
(***************************************************************************)
Names == {"a", "b"}

\* the second rectangle: overlapping, touching, apart, inside, empty, and one
\* whose left edge was stretched past its right edge
OtherRects ==
    {from_edges(-2, 2, -2, 2), from_edges(0, 4, 0, 2), from_edges(2, 4, -4, -2),
     from_edges(-4, 4, -4, 4), from_edges(0, 0, 0, 0), from_edges(0, 2, 2, 2),
     from_edges(2, -2, 0, 2), from_edges(-4, -2, 2, 4)}

\* a is any rectangle on the grid, also one stretched past its opposite edge
InitTopology ==
    /\ rect = NoRect
    /\ last = Idle
    /\ \E ra \in InitRects, rb \in OtherRects : heap = [n \in Names |-> IF n = "a" THEN ra ELSE rb]
    /\ glast = GIdle
    /\ pure = <<>>
    /\ ncalls = 0
    /\ ret = <<>>

\* the call self.op(other) returns res; no field of self or other is assigned
Returns(op, self, other, res) ==
    /\ ret' = res.val
    /\ glast' = GCall(op, self, other, heap, res.err)
    /\ UNCHANGED <<rect, last, heap, pure, ncalls>>

\* self.intersection(other)
Intersection ==
    /\ glast.op = "idle"
    /\ \E self \in Names, other \in Names :
        Returns("intersection", self, other, intersection(heap[self], heap[other]))

\* self.union(other)
Union ==
    /\ glast.op = "idle"
    /\ \E self \in Names, other \in Names :
        Returns("union", self, other, union(heap[self], heap[other]))

NextTopology ==
    \/ Intersection
    \/ Union

SpecTopology == InitTopology /\ [][NextTopology]_vars

(***************************************************************************)
(* Properties of intersection and union                                    *)
(***************************************************************************)
\* some point lies strictly inside both rectangles: they share positive area
Overlap(a, b) ==
    /\ \E px \in (0 - Lim)..Lim :
           /\ left(a) < px /\ px < right(a)
           /\ left(b) < px /\ px < right(b)
    /\ \E py \in (0 - Lim)..Lim :
           /\ bottom(a) < py /\ py < top(a)
           /\ bottom(b) < py /\ py < top(b)

\* C12: a.intersection(b) is None exactly when a and b share no positive
\* area (also when they only touch at an edge or a corner); otherwise the
\* result has left = max of lefts, right = min of rights, bottom = max of
\* bottoms, top = min of tops and lies inside both a and b; the result equals
\* b.intersection(a); neither a nor b is modified.
C12_Intersection ==
    glast.op = "intersection" =>
        LET a == heap[glast.g]
            b == heap[glast.value]
        IN  /\ ~glast.err
            /\ (ret = <<>>) <=> ~Overlap(a, b)
            /\ ret # <<>> =>
                   /\ left(ret[1]) = MaxOf({left(a), left(b)})
                   /\ right(ret[1]) = MinOf({right(a), right(b)})
                   /\ bottom(ret[1]) = MaxOf({bottom(a), bottom(b)})
                   /\ top(ret[1]) = MinOf({top(a), top(b)})
                   /\ is_inside_of(ret[1], a)
                   /\ is_inside_of(ret[1], b)
            /\ ret = intersection(b, a).val
            /\ heap = glast.pre

C12_Witness ==
    /\ glast.op = "intersection"
    /\ glast.g # glast.value
    /\ ret # <<>>
    /\ ret[1] # heap["a"]
    /\ ret[1] # heap["b"]

C12_WitnessTouching ==
    /\ glast.op = "intersection"
    /\ ret = <<>>
    /\ right(heap["a"]) = left(heap["b"])
    /\ heap["a"].width > 0 /\ heap["b"].width > 0
    /\ bottom(heap["a"]) < top(heap["b"]) /\ bottom(heap["b"]) < top(heap["a"])

\* C13: a.union(b) is never None; it has left = min of lefts, right = max of
\* rights, bottom = min of bottoms, top = max of tops, contains both a and b
\* and equals b.union(a); a.union(a) has the edges of a; neither a nor b is
\* modified.  The call returns for all rectangles of non-negative width and
\* height; for a rectangle stretched past its opposite edge it may raise, and
\* the statement is about the calls that return.
C13_Union ==
    glast.op = "union" =>
        LET a == heap[glast.g]
            b == heap[glast.value]
        IN  /\ (BaseRect__post_init__(a) /\ BaseRect__post_init__(b)) => ~glast.err
            /\ ~glast.err =>
                   /\ ret # <<>>
                   /\ left(ret[1]) = MinOf({left(a), left(b)})
                   /\ right(ret[1]) = MaxOf({right(a), right(b)})
                   /\ bottom(ret[1]) = MinOf({bottom(a), bottom(b)})
                   /\ top(ret[1]) = MaxOf({top(a), top(b)})
                   /\ is_inside_of(a, ret[1])
                   /\ is_inside_of(b, ret[1])
                   /\ union(b, a) = Val(ret, FALSE)
                   /\ glast.g = glast.value =>
                          /\ left(ret[1]) = left(a) /\ right(ret[1]) = right(a)
                          /\ bottom(ret[1]) = bottom(a) /\ top(ret[1]) = top(a)
            /\ heap = glast.pre

C13_Witness ==
    /\ glast.op = "union" /\ ~glast.err
    /\ glast.g # glast.value
    /\ ret[1] # heap["a"]
    /\ ret[1] # heap["b"]
    /\ ~Overlap(heap["a"], heap["b"])
    /\ heap["a"].width > 0 /\ heap["a"].height > 0
    /\ top(heap["a"]) > top(heap["b"])

C13_WitnessSelf ==
    /\ glast.op = "union" /\ ~glast.err
    /\ glast.g = glast.value
    /\ heap[glast.g].width > 0

(***************************************************************************)
(* rect.py : the constructors of Rect                                      *)
(*                                                                         *)
(* A Rect object is its four fields and its user_data.  An optional value  *)
(* is <<>> for None and <<v>> for the value v: the start, stop and step of *)
(* a slice, and the user data, whose objects are known by their names.     *)
(***************************************************************************)
None == <<>>

slice(start, stop, step) == [t |-> "slice", start |-> start, stop |-> stop, step |-> step]

\* mutant: a number is taken as the stop of a range that starts at 0
_to_start_stop_mut(value) ==
    IF value.t = "slice"
    THEN IF value.step # None \/ value.stop = None THEN Val(<<>>, TRUE)
         ELSE Val(<<IF value.start = None \/ value.start = <<0>> THEN 0 ELSE value.start[1],
                    value.stop[1]>>, FALSE)
    ELSE Val(<<0, value.v>>, FALSE)

\* _to_start_stop: the two asserts, "value.start or 0", and -half, half
_to_start_stop(value) ==
    IF value.t = "slice"
    THEN IF value.step # None \/ value.stop = None THEN Val(<<>>, TRUE)
         ELSE Val(<<IF value.start = None \/ value.start = <<0>> THEN 0 ELSE value.start[1],
                    value.stop[1]>>, FALSE)
    ELSE Val(<<0 - Half(value.v), Half(value.v)>>, FALSE)

\* Rect(x, y, width, height, user_data): the dataclass __init__ and __post_init__
Rect__init__(px, py, w, h, user) ==
    IF w >= 0 /\ h >= 0
    THEN Val(<<[x |-> px, y |-> py, width |-> w, height |-> h, user_data |-> user]>>, FALSE)
    ELSE Val(<<>>, TRUE)

\* Rect.from_size
Rect_from_size(w, h, user) == Rect__init__(0, 0, w, h, user)

\* Rect.from_edges
Rect_from_edges(l, r, b, t, user) ==
    Rect__init__(Half(l + r), Half(b + t), r - l, t - b, user)

\* Rect.__class_getitem__
Rect__class_getitem__(init_tuple) ==
    IF _to_start_stop(init_tuple[1]).err \/ _to_start_stop(init_tuple[2]).err
    THEN Val(<<>>, TRUE)
    ELSE Rect_from_edges(_to_start_stop(init_tuple[1]).val[1],
                         _to_start_stop(init_tuple[1]).val[2],
                         _to_start_stop(init_tuple[2]).val[1],
                         _to_start_stop(init_tuple[2]).val[2],
                         IF Len(init_tuple) > 2 THEN init_tuple[3] ELSE None)

(***************************************************************************)
(* A client constructs one rectangle                                       *)
(***************************************************************************)
UserData == {None, <<"u1">>, <<"u2">>}

\* a range of Rect[...]: a number or a slice
Ranges ==
    {Num(v) : v \in Coords}
    \cup {slice(start, stop, step) : start \in {<<v>> : v \in Coords} \cup {None},
                                     stop \in {<<v>> : v \in Coords} \cup {None},
                                     step \in {None, <<1>>}}

\* the vertical ranges the client writes
YRanges ==
    {Num(v) : v \in {-2, 0, 4}}
    \cup {slice(start, stop, None) : start \in {None, <<-2>>, <<0>>, <<2>>},
                                     stop \in {None, <<-2>>, <<0>>, <<2>>}}
    \cup {slice(<<0>>, <<2>>, <<1>>)}

InitConstruct ==
    /\ rect = NoRect
    /\ last = Idle
    /\ heap = <<>>
    /\ glast = GIdle
    /\ pure = <<>>
    /\ ncalls = 0
    /\ ret = <<>>

\* the constructor op called with args returns res
Constructs(op, args, res) ==
    /\ ret' = res.val
    /\ glast' = GCall(op, "Rect", args, heap, res.err)
    /\ UNCHANGED <<rect, last, heap, pure, ncalls>>

\* Rect.from_edges(l, r, b, t) and Rect.from_edges(l, r, b, t, user)
FromEdges ==
    /\ glast.op = "idle"
    /\ \E l \in Coords, r \in Coords, b \in Coords, t \in Coords, user \in UserData :
        Constructs("from_edges", <<l, r, b, t, user>>, Rect_from_edges(l, r, b, t, user))

\* Rect.from_size(w, h) and Rect.from_size(w, h, user)
FromSize ==
    /\ glast.op = "idle"
    /\ \E w \in Coords, h \in Coords, user \in UserData :
        Constructs("from_size", <<w, h, user>>, Rect_from_size(w, h, user))

\* Rect[x_range, y_range] and Rect[x_range, y_range, user, ...]
GetItem ==
    /\ glast.op = "idle"
    /\ \E x_range \in Ranges, y_range \in YRanges,
          optional \in {<<>>} \cup {<<u>> : u \in UserData} \cup {<<<<"u1">>, <<"u2">>>>} :
        Constructs("getitem", <<x_range, y_range>> \o optional,
                   Rect__class_getitem__(<<x_range, y_range>> \o optional))

NextConstruct ==
    \/ FromEdges
    \/ FromSize
    \/ GetItem

SpecConstruct == InitConstruct /\ [][NextConstruct]_vars

(***************************************************************************)
(* Properties of the constructors                                          *)
(***************************************************************************)
\* a range a rectangle can be made from: a slice lo:hi or :hi without step
\* and with lo <= hi, or a size that is not negative
GoodRange(range) ==
    IF range.t = "slice"
    THEN /\ range.step = None
         /\ range.stop # None
         /\ (IF range.start = None THEN 0 ELSE range.start[1]) <= range.stop[1]
    ELSE range.v >= 0

\* the rectangle spans the range: from the start of the slice, or 0 when it
\* is omitted, to its stop; or it is centered at 0 and as large as the number
Spans(range, lo, hi, center, size) ==
    IF range.t = "slice"
    THEN /\ lo = (IF range.start = None THEN 0 ELSE range.start[1])
         /\ hi = range.stop[1]
    ELSE center = 0 /\ size = range.v

\* C14: for l <= r and b <= t, Rect.from_edges(l, r, b, t) and Rect[l:r, b:t]
\* have left = l, right = r, bottom = b, top = t; Rect[w, h] and
\* Rect.from_size(w, h) are centered at (0, 0) with width w and height h; a
\* slice with omitted start starts at 0; an optional third item becomes the
\* user data.
C14_ConstructionRoundTrips ==
    /\ glast.op = "from_edges" =>
           LET a == glast.value
           IN  /\ (a[1] <= a[2] /\ a[3] <= a[4]) => ~glast.err
               /\ ~glast.err =>
                      /\ left(ret[1]) = a[1] /\ right(ret[1]) = a[2]
                      /\ bottom(ret[1]) = a[3] /\ top(ret[1]) = a[4]
                      /\ ret[1].user_data = a[5]
    /\ glast.op = "from_size" =>
           LET a == glast.value
           IN  /\ (a[1] >= 0 /\ a[2] >= 0) => ~glast.err
               /\ ~glast.err =>
                      /\ ret[1].x = 0 /\ ret[1].y = 0
                      /\ ret[1].width = a[1] /\ ret[1].height = a[2]
                      /\ ret[1].user_data = a[3]
    /\ glast.op = "getitem" =>
           LET a == glast.value
           IN  /\ (GoodRange(a[1]) /\ GoodRange(a[2])) => ~glast.err
               /\ ~glast.err =>
                      /\ Spans(a[1], left(ret[1]), right(ret[1]), ret[1].x, ret[1].width)
                      /\ Spans(a[2], bottom(ret[1]), top(ret[1]), ret[1].y, ret[1].height)
                      /\ ret[1].user_data = (IF Len(a) > 2 THEN a[3] ELSE None)

C14_Witness ==
    /\ glast.op = "getitem" /\ ~glast.err
    /\ glast.value[1].t = "num" /\ glast.value[1].v > 0
    /\ glast.value[2].t = "slice" /\ glast.value[2].start = None
    /\ glast.value[2].stop = <<2>>
    /\ Len(glast.value) = 3 /\ glast.value[3] = <<"u1">>
    /\ ret[1].user_data = <<"u1">>
    /\ left(ret[1]) < 0

C14_WitnessEdges ==
    /\ glast.op = "from_edges" /\ ~glast.err
    /\ glast.value[1] < glast.value[2] /\ glast.value[1] > 0
    /\ glast.value[3] < glast.value[4]

(***************************************************************************)
(* userdata.py : HasUserData.copy                                          *)
(*                                                                         *)
(* Here heap is the sequence of the mutable objects, an object's identity  *)
(* is its position.  A Python value is Ref(n), a reference to object n, or *)
(* Atom(v), an immutable object known by its value: None, a string, a      *)
(* number, or one of the three sentinels keep, shallow_copy, deep_copy.    *)
(* An object is a Rect with its user_data or a list with its items.        *)
(***************************************************************************)
Ref(n) == [t |-> "ref", at |-> n]

Atom(v) == [t |-> "atom", v |-> v]

keep == Atom("keep")

shallow_copy == Atom("shallow_copy")

deep_copy == Atom("deep_copy")

List(items) == [t |-> "list", items |-> items]

RectObj(r, user) ==
    [t |-> "rect", x |-> r.x, y |-> r.y, width |-> r.width, height |-> r.height,
     user_data |-> user]

\* the heap and the value at the end of a function that may allocate
HVal(h, v) == [heap |-> h, val |-> v]

\* copy.copy(value): an immutable object is returned as it is, a list or a
\* dataclass object becomes a new object with the same items or fields
copy(h, value) ==
    IF value.t = "atom" THEN HVal(h, value)
    ELSE HVal(Append(h, h[value.at]), Ref(Len(h) + 1))

RECURSIVE deepcopy_memo(_, _, _)
RECURSIVE deepcopy_items(_, _, _, _)
\* the loop of copy._deepcopy_list: y.append(deepcopy(a, memo)) for a in x
deepcopy_items(h, items, memo, y) ==
    IF items = <<>> THEN [heap |-> h, memo |-> memo]
    ELSE LET r == deepcopy_memo(h, Head(items), memo)
         IN  deepcopy_items([r.heap EXCEPT ![y].items = Append(@, r.val)],
                            Tail(items), r.memo, y)

\* copy.deepcopy(value, memo) for atoms and lists: an object met before is
\* taken from the memo, a list is copied item by item
deepcopy_memo(h, value, memo) ==
    IF value.t = "atom" THEN [heap |-> h, val |-> value, memo |-> memo]
    ELSE IF value.at \in DOMAIN memo
         THEN [heap |-> h, val |-> Ref(memo[value.at]), memo |-> memo]
         ELSE LET y == Len(h) + 1
                  r == deepcopy_items(Append(h, List(<<>>)), h[value.at].items,
                                      memo @@ (value.at :> y), y)
              IN  [heap |-> r.heap, val |-> Ref(y), memo |-> r.memo]

\* copy.deepcopy(value)
deepcopy(h, value) ==
    HVal(deepcopy_memo(h, value, <<>>).heap, deepcopy_memo(h, value, <<>>).val)

\* the user data the copy gets: the if / elif chain of HasUserData.copy
copied_user_data(h, self, user_data) ==
    IF user_data = keep THEN HVal(h, h[self].user_data)
    ELSE IF user_data = shallow_copy THEN copy(h, h[self].user_data)
    ELSE IF user_data = deep_copy THEN deepcopy(h, h[self].user_data)
    ELSE HVal(h, user_data)

\* HasUserData.copy(self, user_data): copied = copy(self), then
\* copied.user_data is assigned and copied is returned
HasUserData_copy(h, self, user_data) ==
    LET copied == copy(h, Ref(self))
        u == copied_user_data(copied.heap, self, user_data)
    IN  HVal([u.heap EXCEPT ![copied.val.at].user_data = u.val], copied.val)

\* the default of the parameter user_data in "def copy(self, user_data=keep)"
copy_default == keep

(***************************************************************************)
(* A client copies rectangles                                              *)
(***************************************************************************)
\* the number of copies the client makes
MaxCopies == 2

CopyRects == {from_edges(0, 2, 0, 2), from_edges(-2, 2, 0, 4), from_edges(2, 4, -2, 0)}

\* a rectangle whose user data is None, 'red', [1], [[1]] or [x, x] with x = [1]
InitHeaps ==
    UNION {{<<RectObj(r, Atom("None"))>>,
            <<RectObj(r, Atom("red"))>>,
            <<RectObj(r, Ref(2)), List(<<Atom(1)>>)>>,
            <<RectObj(r, Ref(2)), List(<<Ref(3)>>), List(<<Atom(1)>>)>>,
            <<RectObj(r, Ref(2)), List(<<Ref(3), Ref(3)>>), List(<<Atom(1)>>)>>}
           : r \in CopyRects}

InitCopy ==
    /\ rect = NoRect
    /\ last = Idle
    /\ heap \in InitHeaps
    /\ glast = GIdle
    /\ pure = <<>>
    /\ ncalls = 0
    /\ ret = <<>>

Addresses(h, type) == {n \in DOMAIN h : h[n].t = type}

\* what a client passes as user_data: a sentinel, None, a string, or a list
Arguments(h) ==
    {keep, shallow_copy, deep_copy, Atom("None"), Atom("new")}
    \cup {Ref(n) : n \in Addresses(h, "list")}

\* the call self.copy(*args) returns res
Copies(self, args, res) ==
    /\ heap' = res.heap
    /\ ret' = <<res.val>>
    /\ glast' = GCall("copy", self, args, heap, FALSE)
    /\ ncalls' = ncalls + 1
    /\ UNCHANGED <<rect, last, pure>>

\* shape.copy()
CopyDefault ==
    /\ ncalls < MaxCopies
    /\ \E self \in Addresses(heap, "rect") :
           Copies(self, <<>>, HasUserData_copy(heap, self, copy_default))

\* shape.copy(user_data)
CopyWith ==
    /\ ncalls < MaxCopies
    /\ \E self \in Addresses(heap, "rect"), user_data \in Arguments(heap) :
           Copies(self, <<user_data>>, HasUserData_copy(heap, self, user_data))

NextCopy ==
    \/ CopyDefault
    \/ CopyWith

SpecCopy == InitCopy /\ [][NextCopy]_vars

(***************************************************************************)
(* Properties of copy                                                      *)
(***************************************************************************)
\* new is a shallow copy of old: an immutable object is itself, a list is a
\* new object with the same items
ShallowCopyOf(pre, old, h, new) ==
    IF old.t = "atom" THEN new = old
    ELSE /\ new.t = "ref"
         /\ new.at \notin DOMAIN pre
         /\ h[new.at] = pre[old.at]

\* the objects reached from a value
RECURSIVE Reach(_, _)
Reach(h, value) ==
    IF value.t = "atom" THEN {}
    ELSE {value.at}
         \cup UNION {Reach(h, h[value.at].items[i]) : i \in DOMAIN h[value.at].items}

\* two values are equal as Python compares lists: item by item
RECURSIVE DeepEq(_, _, _, _)
DeepEq(h1, v1, h2, v2) ==
    IF v1.t = "atom" \/ v2.t = "atom" THEN v1 = v2
    ELSE /\ Len(h1[v1.at].items) = Len(h2[v2.at].items)
         /\ \A i \in DOMAIN h1[v1.at].items :
                DeepEq(h1, h1[v1.at].items[i], h2, h2[v2.at].items[i])

\* new is a deep copy of old: equal to it, and made of new objects only
DeepCopyOf(pre, old, h, new) ==
    /\ DeepEq(pre, old, h, new)
    /\ Reach(h, new) \cap DOMAIN pre = {}

\* the object copy returned is a new Rect with the fields of self, and no
\* object that existed before the call was changed
CopiedShape ==
    /\ ret[1].at \notin DOMAIN glast.pre
    /\ heap[ret[1].at].t = "rect"
    /\ [heap[ret[1].at] EXCEPT !.user_data = keep]
           = [glast.pre[glast.g] EXCEPT !.user_data = keep]
    /\ \A n \in DOMAIN glast.pre : heap[n] = glast.pre[n]

\* copy(keep) shares the user data object, copy(shallow_copy) and
\* copy(deep_copy) give a new shallow / deep copy of it, any other argument
\* becomes the user data of the copy
C15_ExplicitArgument ==
    (glast.op = "copy" /\ glast.value # <<>>) =>
        LET old == glast.pre[glast.g].user_data
            new == heap[ret[1].at].user_data
            arg == glast.value[1]
        IN  /\ CopiedShape
            /\ arg = keep => new = old
            /\ arg = shallow_copy => ShallowCopyOf(glast.pre, old, heap, new)
            /\ arg = deep_copy => DeepCopyOf(glast.pre, old, heap, new)
            /\ arg \notin {keep, shallow_copy, deep_copy} => new = arg

\* C15: shape.copy() with no argument gives the copy a shallow copy of the
\* user data, a new object and not the object the original holds; copy(keep)
\* shares the user data object, copy(shallow_copy) and copy(deep_copy) give a
\* new shallow / deep copy, any other argument becomes the copy's user data.
C15_CopyUserData ==
    /\ C15_ExplicitArgument
    /\ (glast.op = "copy" /\ glast.value = <<>>) =>
           /\ CopiedShape
           /\ ShallowCopyOf(glast.pre, glast.pre[glast.g].user_data,
                            heap, heap[ret[1].at].user_data)

(***************************************************************************)
(* path.py : segments, rectangles with a direction                         *)
(***************************************************************************)
\* the members of the enum Direction
Direction(name) ==
    CASE name = "up" ->
             [name |-> "up", vector |-> Point(0, 1), is_horizontal |-> FALSE,
              start_point |-> "bottom_center", end_point |-> "top_center"]
      [] name = "down" ->
             [name |-> "down", vector |-> Point(0, -1), is_horizontal |-> FALSE,
              start_point |-> "top_center", end_point |-> "bottom_center"]
      [] name = "left" ->
             [name |-> "left", vector |-> Point(-1, 0), is_horizontal |-> TRUE,
              start_point |-> "center_right", end_point |-> "center_left"]
      [] name = "right" ->
             [name |-> "right", vector |-> Point(1, 0), is_horizontal |-> TRUE,
              start_point |-> "center_left", end_point |-> "center_right"]

\* Point.__add__
Point__add__(self, point) == Point(self.x + point.x, self.y + point.y)

\* Point.__sub__
Point__sub__(self, point) == Point(self.x - point.x, self.y - point.y)

\* Point.__truediv__ by 2
Point__truediv__2(self) == Point(Half(self.x), Half(self.y))

\* Point.__abs__: the square root of x ** 2 + y ** 2, taken where it is a
\* whole number
Point__abs__(self) ==
    CHOOSE root \in 0..(self.x * self.x + self.y * self.y) :
        root * root = self.x * self.x + self.y * self.y

\* BaseSegment.length
length(self) == IF self.direction.is_horizontal THEN self.width ELSE self.height

\* BaseSegment.thickness
thickness(self) == IF self.direction.is_horizontal THEN self.height ELSE self.width

\* BaseSegment.start (getter)
start(self) == Corner_get(self, self.direction.start_point)

\* BaseSegment.end (getter)
end(self) == Corner_get(self, self.direction.end_point)

\* a call returned the value v, or raised the exception exc
Returned(v) == [val |-> <<v>>, exc |-> "none"]

Raised(exc) == [val |-> <<>>, exc |-> exc]

\* Segment(x, y, width, height, direction, user_data) with __post_init__
Segment__init__(px, py, w, h, direction, user) ==
    IF w >= 0 /\ h >= 0
    THEN Returned([x |-> px, y |-> py, width |-> w, height |-> h,
                   direction |-> direction, user_data |-> user])
    ELSE Raised("AssertionError")

\* mutant: the direction is taken from start to the origin, not to end
from_start_end_mut(start_, end_, thickness_, user) ==
    IF start_.x = end_.x
    THEN Segment__init__(Point__truediv__2(Point__add__(end_, start_)).x,
                         Point__truediv__2(Point__add__(end_, start_)).y,
                         thickness_, Point__abs__(Point__sub__(end_, start_)),
                         IF 0 > start_.y THEN Direction("up") ELSE Direction("down"),
                         user)
    ELSE IF start_.y = end_.y
    THEN Segment__init__(Point__truediv__2(Point__add__(end_, start_)).x,
                         Point__truediv__2(Point__add__(end_, start_)).y,
                         Point__abs__(Point__sub__(end_, start_)), thickness_,
                         IF 0 > start_.x THEN Direction("right") ELSE Direction("left"),
                         user)
    ELSE Raised("ValueError")

\* Segment.from_start_end
from_start_end(start_, end_, thickness_, user) ==
    IF start_.x = end_.x
    THEN Segment__init__(Point__truediv__2(Point__add__(end_, start_)).x,
                         Point__truediv__2(Point__add__(end_, start_)).y,
                         thickness_, Point__abs__(Point__sub__(end_, start_)),
                         IF end_.y > start_.y THEN Direction("up") ELSE Direction("down"),
                         user)
    ELSE IF start_.y = end_.y
    THEN Segment__init__(Point__truediv__2(Point__add__(end_, start_)).x,
                         Point__truediv__2(Point__add__(end_, start_)).y,
                         Point__abs__(Point__sub__(end_, start_)), thickness_,
                         IF end_.x > start_.x THEN Direction("right") ELSE Direction("left"),
                         user)
    ELSE Raised("ValueError")

(***************************************************************************)
(* A client makes one segment from two points                              *)
(***************************************************************************)
SegmentPoints == {Point(px, py) : px \in Coords, py \in Coords}

Thicknesses == {-2, 0, 1, 2}

SCall(args, exc) ==
    [op |-> "from_start_end", g |-> "Segment", value |-> args, pre |-> heap,
     err |-> exc # "none", exc |-> exc]

InitSegment ==
    /\ rect = NoRect
    /\ last = Idle
    /\ heap = <<>>
    /\ glast = GIdle
    /\ pure = <<>>
    /\ ncalls = 0
    /\ ret = <<>>

\* Segment.from_start_end(s, e, t) and Segment.from_start_end(s, e, t, user)
FromStartEnd ==
    /\ glast.op = "idle"
    /\ \E s \in SegmentPoints, e \in SegmentPoints, t \in Thicknesses, user \in UserData :
           /\ ret' = from_start_end(s, e, t, user).val
           /\ glast' = SCall(<<s, e, t, user>>, from_start_end(s, e, t, user).exc)
    /\ UNCHANGED <<rect, last, heap, pure, ncalls>>

NextSegment == FromStartEnd

SpecSegment == InitSegment /\ [][NextSegment]_vars

(***************************************************************************)
(* Properties of segments                                                  *)
(***************************************************************************)
\* the distance of two points on a line parallel to an axis
Distance(s, e) ==
    (IF s.x >= e.x THEN s.x - e.x ELSE e.x - s.x)
    + (IF s.y >= e.y THEN s.y - e.y ELSE e.y - s.y)

\* C16: for points s, e that share an x or a y coordinate and a thickness
\* t >= 0, seg = Segment.from_start_end(s, e, t) has seg.start = s,
\* seg.end = e, seg.thickness = t, seg.length = the distance from s to e, and
\* the direction up / down / right / left according to where e lies relative
\* to s; if s and e share neither coordinate a ValueError is raised and no
\* segment is created.
C16_SegmentFromStartEnd ==
    glast.op = "from_start_end" =>
        LET s == glast.value[1]
            e == glast.value[2]
            t == glast.value[3]
        IN  /\ ((s.x = e.x \/ s.y = e.y) /\ t >= 0) =>
                   /\ glast.exc = "none"
                   /\ ret # <<>>
                   /\ start(ret[1]) = s
                   /\ end(ret[1]) = e
                   /\ thickness(ret[1]) = t
                   /\ length(ret[1]) = Distance(s, e)
                   /\ (s.x = e.x /\ e.y > s.y) => ret[1].direction.name = "up"
                   /\ (s.x = e.x /\ e.y < s.y) => ret[1].direction.name = "down"
                   /\ (s.y = e.y /\ e.x > s.x) => ret[1].direction.name = "right"
                   /\ (s.y = e.y /\ e.x < s.x) => ret[1].direction.name = "left"
            /\ (s.x # e.x /\ s.y # e.y) =>
                   /\ glast.exc = "ValueError"
                   /\ ret = <<>>

C16_Witness ==
    /\ glast.op = "from_start_end"
    /\ glast.exc = "none"
    /\ ret[1].direction.name = "left"
    /\ length(ret[1]) = 4
    /\ thickness(ret[1]) = 1
    /\ start(ret[1]) # end(ret[1])

C16_WitnessRaise ==
    /\ glast.op = "from_start_end"
    /\ glast.exc = "ValueError"

(***************************************************************************)
(* canvas.py : Html elements and the Canvas                                *)
(*                                                                         *)
(* A style is a Python dict: the sequence of its <<key, value>> items in   *)
(* insertion order.  A value is Num(v) or Str(s); user data is NoData for  *)
(* None, Str(s) or Dict(items).  Text is a TLA+ string.  Python prints an  *)
(* int as 3 and the float of the same value as 3.0; numbers are printed    *)
(* here by their value.                                                    *)
(***************************************************************************)
Str(v) == [t |-> "str", v |-> v]

Dict(items) == [t |-> "dict", items |-> items]

NoData == [t |-> "none"]

\* dict[key] = value: a key that is present keeps its place
RECURSIVE setitem(_, _, _)
setitem(style, key, value) ==
    IF style = <<>> THEN <<<<key, value>>>>
    ELSE IF Head(style)[1] = key THEN <<<<key, value>>>> \o Tail(style)
         ELSE <<Head(style)>> \o setitem(Tail(style), key, value)

\* dict.update(items)
RECURSIVE dict_update(_, _)
dict_update(style, items) ==
    IF items = <<>> THEN style
    ELSE dict_update(setitem(style, Head(items)[1], Head(items)[2]), Tail(items))

\* dict.get(key): <<>> for None
RECURSIVE dict_get(_, _)
dict_get(style, key) ==
    IF style = <<>> THEN <<>>
    ELSE IF Head(style)[1] = key THEN <<Head(style)[2]>>
         ELSE dict_get(Tail(style), key)

\* Html(element, **style)
Html(element, style) == [element |-> element, style |-> style]

\* Html.div
Html_div(style) == Html("div", style)

\* Html.__setattr__ for a key that is not 'element' or 'style'
Html__setattr__(self, key, value) == [self EXCEPT !.style = setitem(@, key, value)]

\* Html.update
Html_update(self, items) == [self EXCEPT !.style = dict_update(@, items)]

\* Html._key: key.replace('_', '-'), for the keys that are used
Html_key(key) ==
    CASE key = "box_sizing" -> "box-sizing"
      [] key = "align_items" -> "align-items"
      [] key = "justify_content" -> "justify-content"
      [] key = "path_color" -> "path-color"
      [] OTHER -> key

\* Html._value
Html_value(value) == IF value.t = "num" THEN ToString(value.v) \o "px" ELSE value.v

\* separator.join(strings)
RECURSIVE join(_, _)
join(separator, strings) ==
    IF strings = <<>> THEN ""
    ELSE IF Len(strings) = 1 THEN strings[1]
         ELSE strings[1] \o separator \o join(separator, Tail(strings))

\* Html.open
Html_open(self) ==
    "<" \o self.element \o " style=\""
    \o join("; ", [i \in DOMAIN self.style |->
                     Html_key(self.style[i][1]) \o ": " \o Html_value(self.style[i][2])])
    \o "\">"

\* Html.close
Html_close(self) == "</" \o self.element \o ">"

\* Html.open_close and Html._repr_html_
Html_open_close(self) == Html_open(self) \o Html_close(self)

\* the four divs of Canvas.axes with their two edges set to 0
axis(width, height, horizontal, vertical) ==
    Html_div(<<<<"position", Str("absolute")>>, <<"width", Num(Half(width))>>,
               <<"height", Num(Half(height))>>, <<"border", Str("1px dotted black")>>,
               <<"box_sizing", Str("border-box")>>, <<horizontal, Num(0)>>,
               <<vertical, Num(0)>>>>)

\* Canvas.__init__ without **style
Canvas__init__(width, height, scale) ==
    [scale |-> scale, width |-> width, height |-> height,
     container |-> Html_div(<<<<"position", Str("relative")>>,
                              <<"width", Num(width * scale)>>,
                              <<"height", Num(height * scale)>>>>),
     axes |-> <<axis(width * scale, height * scale, "left", "bottom"),
                axis(width * scale, height * scale, "right", "bottom"),
                axis(width * scale, height * scale, "left", "top"),
                axis(width * scale, height * scale, "right", "top")>>,
     shapes |-> <<>>,
     default_color |-> "black",
     default_line_color |-> "white"]

\* Canvas.append
Canvas_append(self, shape) == [self EXCEPT !.shapes = Append(@, shape)]

\* key.startswith(prefix), for the prefixes '' and 'path' and the keys used
startswith(key, prefix) == prefix = "" \/ (prefix = "path" /\ key = "path_color")

\* {key: value for key, value in style.items() if key.startswith(prefix)}
RECURSIVE with_prefix(_, _)
with_prefix(items, prefix) ==
    IF items = <<>> THEN <<>>
    ELSE (IF startswith(Head(items)[1], prefix) THEN <<Head(items)>> ELSE <<>>)
         \o with_prefix(Tail(items), prefix)

\* the div after the if / elif of Canvas._set_style, the style getter being
\* the default one, which returns the user data
styled(div, user_data, prefix) ==
    IF user_data.t = "str" THEN Html_update(div, <<<<"background", user_data>>>>)
    ELSE IF user_data.t = "dict" THEN Html_update(div, with_prefix(user_data.items, prefix))
    ELSE div

\* Canvas._set_style: "div.background or default" is the default when the
\* background is missing or the empty string
_set_style(div, user_data, prefix, default) ==
    Html__setattr__(styled(div, user_data, prefix), "background",
        IF dict_get(styled(div, user_data, prefix).style, "background") \in {<<>>, <<Str("")>>}
        THEN Str(default)
        ELSE dict_get(styled(div, user_data, prefix).style, "background")[1])

\* the div of a rectangle in Canvas._rect, before the Segment part
rect_div(self, shape) ==
    _set_style(
        Html__setattr__(
            Html_div(<<<<"position", Str("absolute")>>,
                       <<"left", Num((left(shape) + Half(self.width)) * self.scale)>>,
                       <<"bottom", Num((bottom(shape) + Half(self.height)) * self.scale)>>,
                       <<"width", Num(shape.width * self.scale)>>,
                       <<"height", Num(shape.height * self.scale)>>>>),
            "box_sizing", Str("border-box")),
        shape.user_data, "", self.default_color)

\* the line that shows the orientation of a Segment
line_div(self, shape) ==
    _set_style(
        IF shape.direction.is_horizontal
        THEN Html_div(<<<<"width", Str("100%")>>, <<"height", Num(2)>>>>)
        ELSE Html_div(<<<<"width", Num(2)>>, <<"height", Str("100%")>>>>),
        shape.user_data, "path", self.default_line_color)

\* Canvas._rect: the three strings it yields
_rect(self, shape) ==
    IF shape.cls = "Segment"
    THEN <<Html_open(Html_update(rect_div(self, shape),
                                 <<<<"display", Str("flex")>>,
                                   <<"align_items", Str("center")>>,
                                   <<"justify_content", Str("center")>>>>)),
           Html_open_close(line_div(self, shape)),
           Html_close(rect_div(self, shape))>>
    ELSE <<Html_open(rect_div(self, shape)), "", Html_close(rect_div(self, shape))>>

\* mutant: the shapes of a group are drawn last to first
RECURSIVE _shapes_mut(_, _, _)
_shapes_mut(h, self, shapes) ==
    IF shapes = <<>> THEN <<>>
    ELSE (IF Head(shapes) \in GroupIds
          THEN _shapes_mut(h, self,
                   [i \in DOMAIN h[Head(shapes)].shapes |->
                       h[Head(shapes)].shapes[Len(h[Head(shapes)].shapes) + 1 - i]])
          ELSE _rect(self, h[Head(shapes)]))
         \o _shapes_mut(h, self, Tail(shapes))

\* Canvas._shapes: the strings it yields for a list of Rect, Segment and
\* Group objects
RECURSIVE _shapes(_, _, _)
_shapes(h, self, shapes) ==
    IF shapes = <<>> THEN <<>>
    ELSE (IF Head(shapes) \in GroupIds
          THEN _shapes(h, self, h[Head(shapes)].shapes)
          ELSE _rect(self, h[Head(shapes)]))
         \o _shapes(h, self, Tail(shapes))

\* Canvas._repr_html_ and Canvas.html
html(h, self) ==
    join("\n", <<Html_open(self.container)>>
               \o [i \in DOMAIN self.axes |-> Html_open_close(self.axes[i])]
               \o _shapes(h, self, self.shapes)
               \o <<Html_close(self.container)>>)

(***************************************************************************)
(* A client draws rectangles, segments and groups on a canvas              *)
(*                                                                         *)
(* heap holds the shapes r1 and r2, the groups g1 and g2 and the canvas    *)
(* c1.  html() is called on c1 and on a second canvas of the same size to  *)
(* which the client appends the leaf shapes of c1 one by one; ret is the   *)
(* pair of the two texts.                                                  *)
(***************************************************************************)
\* the longest list of shapes of the canvas
MaxCanvasShapes == 2

ShapeObj(cls, r, user) ==
    [cls |-> cls, x |-> r.x, y |-> r.y, width |-> r.width, height |-> r.height,
     user_data |-> user]

SegmentObj(seg) == [seg EXCEPT !.user_data = seg.user_data] @@ [cls |-> "Segment"]

\* the shapes and the canvas the client starts with: r1, r2 and Canvas(...)
Scenes ==
    {<<ShapeObj("Rect", from_edges(0, 2, 0, 4), NoData),
       SegmentObj(from_start_end(Point(0, 0), Point(4, 0), 2, Str("blue")).val[1]),
       Canvas__init__(10, 20, 1)>>,
     <<ShapeObj("Rect", from_edges(-2, 2, -2, 0), Str("red")),
       SegmentObj(from_start_end(Point(2, 2), Point(2, -2), 2,
                     Dict(<<<<"border", Str("1px solid yellow")>>,
                            <<"path_color", Str("green")>>>>)).val[1]),
       Canvas__init__(20, 10, 2)>>,
     <<ShapeObj("Rect", from_edges(2, 4, 0, 2),
                Dict(<<<<"background", Str("none")>>, <<"path_color", Str("green")>>>>)),
       ShapeObj("Rect", from_edges(-4, 0, -2, 2), Str("")),
       Canvas__init__(8, 8, 3)>>}

InitCanvas ==
    /\ rect = NoRect
    /\ last = Idle
    /\ \E scene \in Scenes :
           heap = [id \in RectIds \cup GroupIds \cup {"c1"} |->
                      IF id = "r1" THEN scene[1]
                      ELSE IF id = "r2" THEN scene[2]
                      ELSE IF id = "c1" THEN scene[3] ELSE NoGroup]
    /\ glast = GIdle
    /\ pure = <<>>
    /\ ncalls = 0
    /\ ret = <<>>

\* the lists a group is made of here: no shape twice in the same list
GroupLists(h, g) ==
    {shapes \in ShapeLists(h, g, 0) :
        \A i, j \in DOMAIN shapes : shapes[i] = shapes[j] => i = j}

\* g = Group(shapes), for a list that makes the constructor return
MakeGroup ==
    /\ glast.op = "idle"
    /\ \E g \in {id \in GroupIds : ~heap[id].made} :
         \E shapes \in GroupLists(heap, g) :
           /\ ~Group(heap, g, shapes).err
           /\ heap' = Group(heap, g, shapes).heap
    /\ UNCHANGED <<rect, last, glast, pure, ncalls, ret>>

\* c1.append(shape)
CanvasAppend ==
    /\ glast.op = "idle"
    /\ Len(heap["c1"].shapes) < MaxCanvasShapes
    /\ \E shape \in RectIds \cup {g \in GroupIds : heap[g].made} :
           heap' = [heap EXCEPT !["c1"] = Canvas_append(@, shape)]
    /\ UNCHANGED <<rect, last, glast, pure, ncalls, ret>>

\* the Rect and Segment objects of a list of shapes, those of a group in the
\* place of the group
RECURSIVE Leaves(_, _)
Leaves(h, shapes) ==
    IF shapes = <<>> THEN <<>>
    ELSE (IF Head(shapes) \in GroupIds THEN Leaves(h, h[Head(shapes)].shapes)
          ELSE <<Head(shapes)>>)
         \o Leaves(h, Tail(shapes))

\* no_group = Canvas(...); no_group.append(leaf) for each leaf
RECURSIVE AppendEach(_, _)
AppendEach(canvas, leaves) ==
    IF leaves = <<>> THEN canvas
    ELSE AppendEach(Canvas_append(canvas, Head(leaves)), Tail(leaves))

NoGroupCanvas(h, canvas) ==
    AppendEach(Canvas__init__(canvas.width, canvas.height, canvas.scale),
               Leaves(h, canvas.shapes))

\* c1.html() and no_group.html()
DrawHtml ==
    /\ glast.op = "idle"
    /\ ret' = <<html(heap, heap["c1"]), html(heap, NoGroupCanvas(heap, heap["c1"]))>>
    /\ glast' = GCall("html", "c1", 0, <<>>, FALSE)
    /\ UNCHANGED <<rect, last, heap, pure, ncalls>>

NextCanvas ==
    \/ MakeGroup
    \/ CanvasAppend
    \/ DrawHtml

SpecCanvas == InitCanvas /\ [][NextCanvas]_vars

(***************************************************************************)
(* Properties of the canvas                                                *)
(***************************************************************************)
\* the strings of the leaves, one leaf after the other
RECURSIVE EachLeaf(_, _, _)
EachLeaf(h, canvas, leaves) ==
    IF leaves = <<>> THEN <<>>
    ELSE _rect(canvas, h[Head(leaves)]) \o EachLeaf(h, canvas, Tail(leaves))

\* C17: the html() of a canvas to which groups were appended, also groups
\* nested in groups, equals the html() of a canvas of the same size to which
\* the leaf shapes were appended one by one in depth-first order; the shapes
\* are emitted in the order they were appended, between the container's
\* opening tag with the four axes and its closing tag.
C17_GroupsRenderedAsLeaves ==
    glast.op = "html" =>
        /\ ret[1] = ret[2]
        /\ ret[1] = join("\n", <<Html_open(heap["c1"].container)>>
                               \o [i \in 1..4 |-> Html_open_close(heap["c1"].axes[i])]
                               \o EachLeaf(heap, heap["c1"], Leaves(heap, heap["c1"].shapes))
                               \o <<Html_close(heap["c1"].container)>>)

C17_Witness ==
    /\ glast.op = "html"
    /\ heap["c1"].shapes = <<"g1", "r1">>
    /\ heap["g1"].shapes = <<"r2", "g2">>
    /\ heap["g2"].shapes = <<"r1", "r2">>
    /\ heap["r2"].cls = "Segment"
    /\ ret[1] = ret[2]

====
